---- MODULE Spec2Model ----
(***************************************************************************)
(* Flight-analysis pipeline of app.py: analyze_page (upload, detection,    *)
(* reduction to trajectory points, plot rendering, upload to the blob      *)
(* store, history record), and the history read path (load_history,        *)
(* get_cloud_results).                                                     *)
(*                                                                         *)
(* Conventions.  A string is a sequence of one-character strings.  A point *)
(* coordinate is kept in half pixels, so the centroid (x1 + x2) / 2 of the  *)
(* code is the integer x1 + x2 here and no division rounds.  The         *)
(* timestamp strftime("%Y%m%d_%H%M%S") has a fixed width and one-second    *)
(* precision; it is the clock's second, kept as the first element of the  *)
(* folder name.                                                            *)
(***************************************************************************)
EXTENDS Integers, Sequences, FiniteSets, TLC

VARIABLES
    clock,             \* wall clock, in seconds (datetime.datetime.now())
    model,             \* get_model()'s cached value: "unloaded", "none", "yolo"
    firebase_ok,       \* init_firebase() returned an app (cached for the process)
    local,             \* files the app writes under RES_DIR: <<folder_name, file name>>
    blobs,             \* objects of the storage bucket: <<folder_name, file name>>
    history,           \* documents of the Firestore collection "history", as added
    current_analysis,  \* st.session_state["current_analysis"]: <<>> or <<record>>
    page,              \* st.session_state["page"]
    pc,                \* position of the script run inside analyze_page
    msg,               \* st.warning / st.error / st.success / st.toast of this run
    analysis_name,     \* locals of analyze_page
    save_path,         \* the annotated video the detector saved: <<>> or <<file name>>
    folder_name,
    results,
    trajectory_points,
    pt_count,
    html_content,
    upload_outcome,    \* where upload_to_firebase left: see upload_to_firebase
    history_outcome,   \* where add_history left: see add_history
    view,              \* what history_page last displayed
    san_once,          \* sanitisation applied once / twice to analysis_name
    san_twice

vars == <<clock, model, firebase_ok, local, blobs, history, current_analysis, page, pc, msg, analysis_name, folder_name, results, save_path, trajectory_points, pt_count, html_content, upload_outcome, history_outcome, view, san_once, san_twice>>

-----------------------------------------------------------------------------
(* Bounds of the model. *)

MaxClock == 1
MaxRecords == 2
MaxDocs == 3
MaxNameLen == 3
MaxFrames == 2
MaxBoxes == 2

-----------------------------------------------------------------------------
(* Characters and str methods. *)

AsciiLetters == {"a", "b", "F", "M", "g", "h", "i", "l", "n", "s", "t", "y"}
AsciiDigits == {"1"}
\* str.isalnum() is true of every Unicode letter and number, not only of ASCII.
UnicodeAlnum == {"é"}
Whitespace == {" "}

isalnum(c) == c \in AsciiLetters \cup AsciiDigits \cup UnicodeAlnum

RECURSIVE lstrip(_)
lstrip(s) == IF s # <<>> /\ Head(s) \in Whitespace THEN lstrip(Tail(s)) ELSE s

RECURSIVE rstrip(_)
rstrip(s) == IF s # <<>> /\ s[Len(s)] \in Whitespace THEN rstrip(SubSeq(s, 1, Len(s) - 1)) ELSE s

strip(s) == rstrip(lstrip(s))

\* "".join(c for c in analysis_name if c.isalnum() or c in ("-", "_"))
RECURSIVE join_kept(_)
join_kept(s) == IF s = <<>> THEN <<>> ELSE (IF isalnum(Head(s)) \/ Head(s) \in {"-", "_"} THEN <<Head(s)>> ELSE <<>>) \o join_kept(Tail(s))

\* A sanitiser that removes only the first character it rejects (replace(c, "", 1)).
RECURSIVE join_kept_first_only(_)
join_kept_first_only(s) == IF s = <<>> THEN <<>> ELSE IF isalnum(Head(s)) \/ Head(s) \in {"-", "_"} THEN <<Head(s)>> \o join_kept_first_only(Tail(s)) ELSE Tail(s)

safe_name_first_only(name) == strip(join_kept_first_only(name))

safe_name(name) == strip(join_kept(name))

\* the name part of folder_name: safe_name, or "analysis" when that is empty
name_part(name) == IF safe_name(name) # <<>> THEN safe_name(name) ELSE <<"a", "n", "a", "l", "y", "s", "i", "s">>

\* f"{timestamp}_{safe_name}" / f"{timestamp}_analysis"
make_folder_name(timestamp, name) == <<timestamp, "_">> \o name_part(name)

-----------------------------------------------------------------------------
(* Detection results and the trajectory reduction (analyze_page, 396-406). *)
(* An optional value (None or a value) is a sequence of length 0 or 1.     *)
(* A frame result is [boxes |-> optional Boxes], a Boxes object is        *)
(* [xyxy |-> optional array], an array is a sequence of rows <<x1, y1, x2, y2>>.*)

None == <<>>
Some(x) == <<x>>

BoxSet == {<<0, 0, 10, 10>>, <<10, 10, 20, 20>>, <<0, 0, 10, 20>>}

\* the centroid of one row, in half pixels: ((x1 + x2) / 2, (y1 + y2) / 2)
centroid(box) == <<box[1] + box[3], box[2] + box[4]>>

\* for box in arr: trajectory_points.append(centroid)
RECURSIVE append_boxes(_, _)
append_boxes(points, arr) == IF arr = <<>> THEN points ELSE append_boxes(Append(points, centroid(Head(arr))), Tail(arr))

\* A reduction that keeps one point per frame (the first box only).
RECURSIVE reduce_first_box(_, _)
reduce_first_box(points, frames) == IF frames = <<>> THEN points ELSE LET fr == Head(frames) IN IF fr.boxes = None \/ fr.boxes[1].xyxy = None \/ fr.boxes[1].xyxy[1] = <<>> THEN reduce_first_box(points, Tail(frames)) ELSE reduce_first_box(Append(points, centroid(fr.boxes[1].xyxy[1][1])), Tail(frames))

\* for frame_result in results: skip None boxes / None xyxy, else append every row
RECURSIVE reduce(_, _)
reduce(points, frames) == IF frames = <<>> THEN points ELSE LET fr == Head(frames) IN IF fr.boxes = None THEN reduce(points, Tail(frames)) ELSE IF fr.boxes[1].xyxy = None THEN reduce(points, Tail(frames)) ELSE reduce(append_boxes(points, fr.boxes[1].xyxy[1]), Tail(frames))

FrameOf(arr) == [boxes |-> Some([xyxy |-> Some(arr)])]
FrameNoBoxes == [boxes |-> None]
FrameNoXyxy == [boxes |-> Some([xyxy |-> None])]

SeqsUpTo(S, n) == UNION {[1..k -> S] : k \in 0..n}

\* frame results with at most MaxBoxes rows, and sequences of at most MaxFrames of them
Frames == {FrameNoBoxes, FrameNoXyxy} \cup {FrameOf(a) : a \in SeqsUpTo(BoxSet, MaxBoxes)}
FrameSeqs == SeqsUpTo(Frames, MaxFrames)

\* the three-frame scenario: one box, none, two boxes
ScenarioResults == <<FrameOf(<<<<0, 0, 10, 10>>>>), FrameOf(<<>>), FrameOf(<<<<0, 0, 10, 10>>, <<10, 10, 20, 20>>>>)>>

\* what the detector returns in a run of the pipeline: 1 point (below the
\* threshold of the plot) and 3 points
RunResults == {<<FrameNoXyxy, FrameOf(<<<<0, 0, 10, 20>>>>)>>, ScenarioResults}

-----------------------------------------------------------------------------
(* Storage: the bucket (upload_to_firebase, get_cloud_results) and the     *)
(* Firestore collection (add_history, load_history).                       *)
(* A fault names the call that raises: "none", "video", "plot" for the two *)
(* blob calls, TRUE / FALSE for the single Firestore call.                 *)

VideoFile == "input.mp4"
PlotFile == "trajectory_plot.html"
BlobFaults == {"none", "video", "plot"}

\* An upload that reports success although the video call raised.
upload_to_firebase_swallow(local_folder, bucket, folder, bucket_ok, fault) == IF ~bucket_ok THEN [outcome |-> "no_bucket", bucket |-> bucket] ELSE LET vid == <<folder, VideoFile>> \in local_folder /\ fault # "video" IN LET html == <<folder, PlotFile>> \in local_folder /\ fault # "plot" IN [outcome |-> "returned", bucket |-> bucket \cup (IF vid THEN {<<folder, VideoFile>>} ELSE {}) \cup (IF html THEN {<<folder, PlotFile>>} ELSE {})]

\* upload_to_firebase: outcome "no_bucket", "video_raised" and "plot_raised" return
\* False, "returned" returns True; bucket is the bucket's content afterwards.
upload_to_firebase(local_folder, bucket, folder, bucket_ok, fault) == IF ~bucket_ok THEN [outcome |-> "no_bucket", bucket |-> bucket] ELSE IF <<folder, VideoFile>> \in local_folder /\ fault = "video" THEN [outcome |-> "video_raised", bucket |-> bucket] ELSE LET vid == IF <<folder, VideoFile>> \in local_folder THEN {<<folder, VideoFile>>} ELSE {} IN IF <<folder, PlotFile>> \in local_folder /\ fault = "plot" THEN [outcome |-> "plot_raised", bucket |-> bucket \cup vid] ELSE [outcome |-> "returned", bucket |-> bucket \cup vid \cup (IF <<folder, PlotFile>> \in local_folder THEN {<<folder, PlotFile>>} ELSE {})]

\* get_cloud_results: (video_url, html_content), each optional; an exception
\* leaves what was not yet fetched at None.
get_cloud_results(bucket, folder, bucket_ok, fault) == IF ~bucket_ok THEN [video_url |-> None, html_content |-> None] ELSE IF fault = "video" THEN [video_url |-> None, html_content |-> None] ELSE [video_url |-> IF <<folder, VideoFile>> \in bucket THEN Some(folder) ELSE None, html_content |-> IF fault # "plot" /\ <<folder, PlotFile>> \in bucket THEN Some(PlotFile) ELSE None]

\* int(x or 0)
int_or_0(x) == IF x = 0 THEN 0 ELSE x

\* A record write that stores the points as a flag (drawable or not).
add_history_flag(docs, record, db_ok, fault) == IF ~db_ok THEN [outcome |-> "no_db", docs |-> docs] ELSE IF fault THEN [outcome |-> "raised", docs |-> docs] ELSE [outcome |-> "added", docs |-> Append(docs, [folder_name |-> record.folder_name, analysis_name |-> record.analysis_name, created_at |-> record.created_at, points |-> IF record.points > 1 THEN 1 ELSE 0])]

\* the documents of docs whose folder_name is not folder
RECURSIVE other_folders(_, _)
other_folders(docs, folder) == IF docs = <<>> THEN <<>> ELSE (IF Head(docs).folder_name = folder THEN <<>> ELSE <<Head(docs)>>) \o other_folders(Tail(docs), folder)

\* A record write keyed by folder_name (document(folder_name).set(payload)): the
\* later write replaces the earlier one.
add_history_upsert(docs, record, db_ok, fault) == IF ~db_ok THEN [outcome |-> "no_db", docs |-> docs] ELSE IF fault THEN [outcome |-> "raised", docs |-> docs] ELSE [outcome |-> "added", docs |-> Append(other_folders(docs, record.folder_name), [folder_name |-> record.folder_name, analysis_name |-> record.analysis_name, created_at |-> record.created_at, points |-> record.points])]

\* how often upload_to_firebase made the blob call that raised: there is no second
\* attempt after an exception (176-178)
upload_attempts(outcome) == IF outcome \in {"video_raised", "plot_raised"} THEN 1 ELSE 0

\* how often add_history made the insert that raised (255-259)
insert_attempts(outcome) == IF outcome = "raised" THEN 1 ELSE 0

\* add_history: collection.add(payload) makes a new document each time; every
\* failure is swallowed.
add_history(docs, record, db_ok, fault) == IF ~db_ok THEN [outcome |-> "no_db", docs |-> docs] ELSE IF fault THEN [outcome |-> "raised", docs |-> docs] ELSE [outcome |-> "added", docs |-> Append(docs, [folder_name |-> record.folder_name, analysis_name |-> record.analysis_name, created_at |-> record.created_at, points |-> int_or_0(record.points)])]

\* c_at.strftime("%Y-%m-%d %H:%M:%S"): the second, as text
strftime(c_at) == ToString(c_at)

\* order_by("created_at", DESCENDING).  created_at is datetime.now() with its
\* microseconds, of which the model keeps the second: of two documents of the same
\* second the one added later is the newer.
Newest(docs) == CHOOSE i \in 1..Len(docs) : \A j \in 1..Len(docs) : docs[j].created_at < docs[i].created_at \/ (docs[j].created_at = docs[i].created_at /\ j <= i)

Without(docs, i) == SubSeq(docs, 1, i - 1) \o SubSeq(docs, i + 1, Len(docs))

RECURSIVE order_by_created_at_desc(_)
order_by_created_at_desc(docs) == IF docs = <<>> THEN <<>> ELSE <<docs[Newest(docs)]>> \o order_by_created_at_desc(Without(docs, Newest(docs)))

HistoryLimit == 500

limit(rows, n) == SubSeq(rows, 1, IF Len(rows) < n THEN Len(rows) ELSE n)

\* The rows of all documents, the unnamed ones too.
RECURSIVE rows_of_unfiltered(_)
rows_of_unfiltered(docs) == IF docs = <<>> THEN <<>> ELSE <<[folder_name |-> Head(docs).folder_name, analysis_name |-> Head(docs).analysis_name, created_at |-> strftime(Head(docs).created_at), points |-> int_or_0(Head(docs).points)]>> \o rows_of_unfiltered(Tail(docs))

\* for doc in docs: skip an empty analysis_name, else append the row
RECURSIVE rows_of(_)
rows_of(docs) == IF docs = <<>> THEN <<>> ELSE (IF Head(docs).analysis_name = <<>> THEN <<>> ELSE <<[folder_name |-> Head(docs).folder_name, analysis_name |-> Head(docs).analysis_name, created_at |-> strftime(Head(docs).created_at), points |-> int_or_0(Head(docs).points)]>>) \o rows_of(Tail(docs))

\* A load_history that lists the documents whether or not the query raised.
load_history_unguarded(docs, db_ok, fault) == IF ~db_ok THEN <<>> ELSE rows_of(limit(order_by_created_at_desc(docs), HistoryLimit))

\* st.error("Failed to load history") of load_history's except branch (234-236);
\* without a database it returns silently (205-206)
load_history_msg(db_ok, fault) == IF db_ok /\ fault THEN <<"err_history_load">> ELSE <<>>

\* st.warning("Error retrieving files") of get_cloud_results' except branch (197-199)
get_cloud_results_msg(bucket_ok, fault) == IF bucket_ok /\ fault # "none" THEN <<"warn_retrieving_files">> ELSE <<>>

\* load_history: no database or a failing query gives the empty list
load_history(docs, db_ok, fault) == IF ~db_ok THEN <<>> ELSE IF fault THEN <<>> ELSE rows_of(limit(order_by_created_at_desc(docs), HistoryLimit))

-----------------------------------------------------------------------------
(* The script run of analyze_page, one action per stage.                   *)

\* display names a user submits: none, or one with a character that is dropped
RunNames == {<<>>, <<"a", " ", "b">>}

PAGES == {"Home", "Analyze", "History"}

\* search texts typed on the history page: none, or one matching no name of a run
RunQueries == {<<>>, <<"y">>}

NoView == [items |-> <<>>, search_q |-> <<>>, filtered_items |-> <<>>, selected |-> None, video_url |-> None, html_content |-> None]

locals == <<analysis_name, folder_name, results, save_path, trajectory_points, pt_count, html_content, upload_outcome, history_outcome>>
stores == <<local, blobs, history>>
pure == <<san_once, san_twice>>

ResetLocals == /\ analysis_name' = <<>>
               /\ folder_name' = <<>>
               /\ results' = <<>>
               /\ save_path' = None
               /\ trajectory_points' = <<>>
               /\ pt_count' = 0
               /\ html_content' = None
               /\ upload_outcome' = "not_called"
               /\ history_outcome' = "not_called"

Init == /\ clock = 0
        /\ model = "unloaded"
        /\ firebase_ok \in BOOLEAN
        /\ local = {}
        /\ blobs = {}
        /\ history = <<>>
        /\ current_analysis = None
        /\ page = "Home"
        /\ pc = "idle"
        /\ msg = <<>>
        /\ analysis_name = <<>>
        /\ folder_name = <<>>
        /\ results = <<>>
        /\ save_path = None
        /\ trajectory_points = <<>>
        /\ pt_count = 0
        /\ html_content = None
        /\ upload_outcome = "not_called"
        /\ history_outcome = "not_called"
        /\ view = NoView
        /\ san_once = <<>>
        /\ san_twice = <<>>

\* The wall clock passes a second; it need not between two runs.  The clock is
\* read when a run starts (timestamp) and when it records (created_at), so a
\* second passing at another stage is one passing just before the next read.
Tick == /\ clock < MaxClock
        /\ pc \in {"idle", "record"}
        /\ clock' = clock + 1
        /\ UNCHANGED <<model, firebase_ok, stores, current_analysis, page, pc, msg, locals, view, pure>>

\* A validation that checks the file only.
validate_file_only(uploaded_file, name) == IF ~uploaded_file THEN "warn_no_file" ELSE "ok"

\* "if not uploaded_file" / "if not analysis_name"
validate(uploaded_file, name) == IF ~uploaded_file THEN "warn_no_file" ELSE IF name = <<>> THEN "warn_no_name" ELSE "ok"

\* start_btn: validation, then the run directory and input.mp4 (364-382)
Submit(uploaded_file, name) == /\ pc = "idle"
                               /\ page = "Analyze"
                               /\ Len(history) < MaxRecords
                               /\ UNCHANGED <<clock, model, firebase_ok, blobs, history, current_analysis, page, view, pure>>
                               /\ IF validate(uploaded_file, name) # "ok"
                                  THEN /\ msg' = <<validate(uploaded_file, name)>>
                                       /\ UNCHANGED <<local, pc, locals>>
                                  ELSE /\ analysis_name' = name
                                       /\ folder_name' = make_folder_name(clock, name)
                                       /\ local' = local \cup {<<make_folder_name(clock, name), VideoFile>>}
                                       /\ msg' = <<"info_processing">>
                                       /\ pc' = "detect"
                                       /\ UNCHANGED <<results, save_path, trajectory_points, pt_count, html_content, upload_outcome, history_outcome>>

\* get_model() (cached) and the model call (384-394)
\* save=True, project=RES_DIR, name=folder_name, exist_ok=True: the detector saves
\* its annotated video in the run's folder, under the stem of its source
\* ("input") and the container suffix of its build: another file beside the
\* upload, or the upload's own path.  save_path keeps which; nothing of the app
\* reads the other file, and local lists the files the app writes itself.
DerivedNames == {"input.avi", VideoFile}

Detect(weights, raises, r, derived) == /\ pc = "detect"
                                       /\ model' = IF model = "unloaded" THEN (IF weights THEN "yolo" ELSE "none") ELSE model
                                       /\ UNCHANGED <<clock, firebase_ok, stores, current_analysis, page, view, pure>>
                                       /\ UNCHANGED <<analysis_name, folder_name, trajectory_points, pt_count, html_content, upload_outcome, history_outcome>>
                                       /\ IF model' = "none"
                                          THEN /\ msg' = Append(msg, "err_no_weights")
                                               /\ pc' = "aborted"
                                               /\ UNCHANGED <<results, save_path>>
                                          ELSE IF raises
                                               THEN /\ msg' = Append(msg, "err_analysis_failed")
                                                    /\ pc' = "aborted"
                                                    /\ UNCHANGED <<results, save_path>>
                                               ELSE /\ results' = r
                                                    /\ save_path' = Some(derived)
                                                    /\ pc' = "reduce"
                                                    /\ UNCHANGED msg

\* the loop over results and pt_count (396-406)
Reduce == /\ pc = "reduce"
          /\ trajectory_points' = reduce(<<>>, results)
          /\ pt_count' = Len(trajectory_points')
          /\ pc' = "render"
          /\ UNCHANGED <<clock, model, firebase_ok, stores, current_analysis, page, msg, view, pure>>
          /\ UNCHANGED <<analysis_name, folder_name, results, save_path, html_content, upload_outcome, history_outcome>>

\* "if pt_count > 1"
drawable(n) == n > 1

\* the plot (407-419); write_html may raise, which ends the script run
Render(raises) == /\ pc = "render"
                  /\ UNCHANGED <<clock, model, firebase_ok, blobs, history, current_analysis, page, view, pure>>
                  /\ UNCHANGED <<analysis_name, folder_name, results, save_path, trajectory_points, pt_count, upload_outcome, history_outcome>>
                  /\ IF ~drawable(pt_count)
                     THEN /\ pc' = "upload"
                          /\ UNCHANGED <<local, html_content, msg>>
                     ELSE IF raises
                          THEN /\ pc' = "aborted"
                               /\ msg' = Append(msg, "exception")
                               /\ UNCHANGED <<local, html_content>>
                          ELSE /\ local' = local \cup {<<folder_name, PlotFile>>}
                               /\ html_content' = Some(PlotFile)
                               /\ pc' = "upload"
                               /\ UNCHANGED msg

\* upload_success = upload_to_firebase(output_folder, folder_name) (421-423)
Upload(fault) == /\ pc = "upload"
                 /\ LET up == upload_to_firebase(local, blobs, folder_name, firebase_ok, fault)
                    IN /\ upload_outcome' = up.outcome
                       /\ blobs' = up.bucket
                       /\ msg' = IF up.outcome = "returned" THEN msg ELSE Append(msg, "err_" \o up.outcome)
                 /\ pc' = "record"
                 /\ UNCHANGED <<clock, model, firebase_ok, local, history, current_analysis, page, view, pure>>
                 /\ UNCHANGED <<analysis_name, folder_name, results, save_path, trajectory_points, pt_count, html_content, history_outcome>>

\* An orchestration that records whatever the upload returned.
upload_success_ignored(outcome) == TRUE

\* "if upload_success"
upload_success(outcome) == outcome = "returned"

\* add_history and the success message, or the upload error; then the session result
\* and st.rerun() (425-450)
Record(fault) == /\ pc = "record"
                 /\ current_analysis' = Some([video_path |-> <<folder_name, VideoFile>>, html_content |-> html_content, timestamp |-> clock, name |-> analysis_name])
                 /\ pc' = "done"
                 /\ UNCHANGED <<clock, model, firebase_ok, local, blobs, page, view, pure>>
                 /\ UNCHANGED <<analysis_name, folder_name, results, save_path, trajectory_points, pt_count, html_content, upload_outcome>>
                 /\ IF upload_success(upload_outcome)
                    THEN LET h == add_history(history, [folder_name |-> folder_name, analysis_name |-> analysis_name, created_at |-> clock, points |-> pt_count], firebase_ok, fault)
                         IN /\ history' = h.docs
                            /\ history_outcome' = h.outcome
                            /\ msg' = msg \o <<"history_" \o h.outcome, "success_complete">>
                    ELSE /\ msg' = Append(msg, "err_cloud_upload_failed")
                         /\ UNCHANGED <<history, history_outcome>>

\* the script run is over (st.rerun(), or the next event after a return): the page
\* is drawn anew, without the messages of the run, and the locals are gone
Rerun == /\ pc \in {"done", "aborted"}
         /\ pc' = "idle"
         /\ msg' = <<>>
         /\ ResetLocals
         /\ UNCHANGED <<clock, model, firebase_ok, stores, current_analysis, page, view, pure>>

\* topbar: the radio selects another page and the script reruns
Navigate(p) == /\ pc = "idle"
               /\ p \in PAGES \ {page}
               /\ page' = p
               /\ msg' = <<>>
               /\ view' = NoView
               /\ UNCHANGED <<clock, model, firebase_ok, stores, current_analysis, pc, locals, pure>>

\* "Clear Result"
ClearResult == /\ pc = "idle"
               /\ page = "Analyze"
               /\ current_analysis # None
               /\ current_analysis' = None
               /\ msg' = <<>>
               /\ UNCHANGED <<clock, model, firebase_ok, stores, page, pc, locals, view, pure>>

\* str.lower() on the letters of the model
lower_char(c) == CASE c = "A" -> "a" [] c = "B" -> "b" [] c = "F" -> "f" [] c = "M" -> "m" [] OTHER -> c

lower(str) == [i \in 1..Len(str) |-> lower_char(str[i])]

startswith(str, prefix) == Len(prefix) <= Len(str) /\ SubSeq(str, 1, Len(prefix)) = prefix

\* "needle in str"
RECURSIVE contains(_, _)
contains(str, needle) == startswith(str, needle) \/ (str # <<>> /\ contains(Tail(str), needle))

\* A search that lowers the query but not the names.
RECURSIVE search_case_sensitive(_, _)
search_case_sensitive(items, search_q) == IF search_q = <<>> \/ items = <<>> THEN items ELSE (IF contains(Head(items).analysis_name, lower(search_q)) THEN <<Head(items)>> ELSE <<>>) \o search_case_sensitive(Tail(items), search_q)

\* filtered_items: all items for an empty search text, else those whose
\* analysis_name.lower() contains search_q.lower() (480-483)
RECURSIVE search(_, _)
search(items, search_q) == IF search_q = <<>> \/ items = <<>> THEN items ELSE (IF contains(lower(Head(items).analysis_name), lower(search_q)) THEN <<Head(items)>> ELSE <<>>) \o search(Tail(items), search_q)

\* the label of an item in the selectbox (489)
label(it) == <<it.analysis_name, it.created_at, it.points>>

\* options[label(items[i])]: of the items with one label the dict keeps the last
options_get(items, i) == items[CHOOSE j \in i..Len(items) : label(items[j]) = label(items[i]) /\ \A k \in (j + 1)..Len(items) : label(items[k]) # label(items[i])]

\* history_page: the list, the search, the selected launch and its files (470-504)
HistoryPage(query_fault, blob_fault, search_q) == /\ pc = "idle"
                                                  /\ page = "History"
                                                  /\ LET items == load_history(history, firebase_ok, query_fault)
                                                         filtered_items == search(items, search_q)
                                                         loaded == load_history_msg(firebase_ok, query_fault)
                                                     IN IF items = <<>>
                                                        THEN /\ view' = NoView
                                                             /\ msg' = Append(loaded, "info_no_history")
                                                        ELSE IF filtered_items = <<>>
                                                        THEN /\ view' = [NoView EXCEPT !.items = items, !.search_q = search_q]
                                                             /\ msg' = Append(loaded, "warn_no_matching_records")
                                                        ELSE \E i \in 1..Len(filtered_items) :
                                                               LET selected_data == options_get(filtered_items, i)
                                                                   got == get_cloud_results(blobs, selected_data.folder_name, firebase_ok, blob_fault)
                                                               IN /\ view' = [items |-> items, search_q |-> search_q, filtered_items |-> filtered_items, selected |-> Some(selected_data), video_url |-> got.video_url, html_content |-> got.html_content]
                                                                  /\ msg' = loaded \o get_cloud_results_msg(firebase_ok, blob_fault) \o (IF got.video_url = None THEN <<"err_no_files_in_cloud">> ELSE <<>>)
                                                  /\ UNCHANGED <<clock, model, firebase_ok, stores, current_analysis, page, pc, locals, pure>>

Next == \/ Tick
        \/ \E f \in BOOLEAN, n \in RunNames : Submit(f, n)
        \/ \E w \in BOOLEAN, x \in BOOLEAN, r \in RunResults, d \in DerivedNames : Detect(w, x, r, d)
        \/ Reduce
        \/ \E x \in BOOLEAN : Render(x)
        \/ \E f \in BlobFaults : Upload(f)
        \/ \E x \in BOOLEAN : Record(x)
        \/ Rerun
        \/ \E p \in PAGES : Navigate(p)
        \/ ClearResult
        \/ \E f \in BlobFaults, s \in RunQueries : HistoryPage(FALSE, f, s)
        \/ HistoryPage(TRUE, "none", <<>>)

Spec == Init /\ [][Next]_vars

-----------------------------------------------------------------------------
(* The sanitisation of a display name and the reduction of detector output, *)
(* each on its own over bounded inputs.                                     *)

Alphabet == {"a", "1", " ", "_", "-", "#", "é"}
MyFlight == <<"M", "y", " ", "F", "l", "i", "g", "h", "t", " ", "#", "1", "!">>
SampleNames == SeqsUpTo(Alphabet, MaxNameLen) \cup {MyFlight}

\* the state of a fresh process on the Analyze page, but for pc and the inputs
Fresh == /\ clock = 0
         /\ model = "unloaded"
         /\ firebase_ok = TRUE
         /\ local = {}
         /\ blobs = {}
         /\ history = <<>>
         /\ current_analysis = None
         /\ page = "Analyze"
         /\ msg = <<>>
         /\ folder_name = <<>>
         /\ save_path = None
         /\ trajectory_points = <<>>
         /\ pt_count = 0
         /\ html_content = None
         /\ upload_outcome = "not_called"
         /\ history_outcome = "not_called"
         /\ view = NoView
         /\ san_once = <<>>
         /\ san_twice = <<>>

InitSanitize == /\ Fresh
                /\ pc = "sanitize"
                /\ analysis_name \in SampleNames
                /\ results = <<>>

\* safe_name and folder_name of the submitted name (373-375)
SanitizeOnce == /\ pc = "sanitize"
                /\ san_once' = safe_name(analysis_name)
                /\ folder_name' = make_folder_name(clock, analysis_name)
                /\ pc' = "sanitized"
                /\ UNCHANGED <<clock, model, firebase_ok, stores, current_analysis, page, msg, view, san_twice>>
                /\ UNCHANGED <<analysis_name, results, save_path, trajectory_points, pt_count, html_content, upload_outcome, history_outcome>>

\* the sanitised name submitted again
SanitizeTwice == /\ pc = "sanitized"
                 /\ san_twice' = safe_name(san_once)
                 /\ pc' = "resanitized"
                 /\ UNCHANGED <<clock, model, firebase_ok, stores, current_analysis, page, msg, view, san_once>>
                 /\ UNCHANGED locals

NextSanitize == SanitizeOnce \/ SanitizeTwice

SpecSanitize == InitSanitize /\ [][NextSanitize]_vars

InitReduce == /\ Fresh
              /\ pc = "reduce"
              /\ analysis_name = <<>>
              /\ results \in FrameSeqs \cup {ScenarioResults}

SpecReduce == InitReduce /\ [][Reduce]_vars

\* The history page over the documents a collection can hold: those of runs and
\* those other writers left, an empty analysis_name among them, in any order of
\* insertion.
StoredNames == {<<>>, <<"a">>, <<"a", " ", "b">>, <<"A", "b">>}
StoredSeconds == {0, 1}
StoredDocs == {[folder_name |-> make_folder_name(c, n), analysis_name |-> n, created_at |-> c, points |-> 3] : n \in StoredNames, c \in StoredSeconds}
Queries == {<<>>, <<"a">>, <<"B">>, <<"a", "B">>, <<"y">>}

InitHistory == /\ clock = 1
               /\ model = "unloaded"
               /\ firebase_ok \in BOOLEAN
               /\ local = {}
               /\ blobs = {}
               /\ history \in SeqsUpTo(StoredDocs, MaxDocs)
               /\ current_analysis = None
               /\ page = "History"
               /\ pc = "idle"
               /\ msg = <<>>
               /\ analysis_name = <<>>
               /\ folder_name = <<>>
               /\ results = <<>>
               /\ save_path = None
               /\ trajectory_points = <<>>
               /\ pt_count = 0
               /\ html_content = None
               /\ upload_outcome = "not_called"
               /\ history_outcome = "not_called"
               /\ view = NoView
               /\ san_once = <<>>
               /\ san_twice = <<>>

\* the bucket is empty here, and after a failed query nothing else is read
NextHistory == \/ \E s \in Queries : HistoryPage(FALSE, "none", s)
               \/ HistoryPage(TRUE, "none", <<>>)

SpecHistory == InitHistory /\ [][NextHistory]_vars

-----------------------------------------------------------------------------
(* Claims. *)

HasRecord(folder, points) == \E i \in 1..Len(history) : history[i].folder_name = folder /\ history[i].points = points

\* C1: the history record is written last and only after the video upload
\* succeeded: the collection changes only in the record stage of a run whose upload
\* returned with the video blob stored, nothing is written after it in the run, and
\* a run whose video upload failed (or that had no bucket) never changes it.
C1_RecordLast == [][/\ (history' # history => pc = "record" /\ upload_outcome = "returned" /\ <<folder_name, VideoFile>> \in blobs /\ blobs' = blobs /\ local' = local)
                    /\ (pc = "done" => stores' = stores)
                    /\ (upload_outcome \in {"video_raised", "no_bucket"} => history' = history /\ history_outcome' = "not_called")]_vars

C1_Witness == pc = "done" /\ upload_outcome = "video_raised" /\ history_outcome = "not_called" /\ <<folder_name, VideoFile>> \notin blobs /\ history = <<>>

\* C2: a run whose video upload succeeded and whose plot upload failed is still
\* recorded (add_history is called) and is not reported as a failed upload.
C2_PlotFailureStillRecords == (pc = "done" /\ upload_outcome = "plot_raised") => (history_outcome # "not_called" /\ \A i \in 1..Len(msg) : msg[i] # "err_cloud_upload_failed")

\* C3: when detection fails (no weights, or the model call raises) nothing of the
\* run is persisted: no file in its local run directory, no blob, no record.
C3_NothingPersistedOnDetectionFailure == (pc = "aborted" /\ msg[Len(msg)] \in {"err_no_weights", "err_analysis_failed"}) => /\ \A f \in {VideoFile, PlotFile} : <<folder_name, f>> \notin local /\ <<folder_name, f>> \notin blobs
                                                                                                                         /\ \A i \in 1..Len(history) : history[i].folder_name # folder_name

\* C4: every record of the collection has its video blob <folder_name>/input.mp4.
C4_RecordHasVideo == \A i \in 1..Len(history) : <<history[i].folder_name, VideoFile>> \in blobs

C4_Witness == pc = "done" /\ history_outcome = "added" /\ HasRecord(folder_name, pt_count) /\ <<folder_name, VideoFile>> \in blobs

\* C5: at the end of a run its folder holds a plot document if and only if the run
\* has at least 2 points, and no plot blob is stored for a run with fewer.
C5_PlotIffDrawable == pc = "done" => /\ (<<folder_name, PlotFile>> \in local <=> pt_count >= 2)
                                     /\ (<<folder_name, PlotFile>> \in blobs => pt_count >= 2)

\* C6: a run with 0 or 1 points whose video was uploaded is recorded with that
\* count, unless the record store itself failed.
C6_LowCountRecorded == (pc = "done" /\ pt_count < 2 /\ upload_outcome \in {"returned", "plot_raised"} /\ history_outcome \notin {"no_db", "raised"}) => HasRecord(folder_name, pt_count)

\* the rows of a frame result, by the data model: none when boxes or xyxy is None
Rows(fr) == IF fr.boxes = None THEN <<>> ELSE IF fr.boxes[1].xyxy = None THEN <<>> ELSE fr.boxes[1].xyxy[1]

RECURSIVE RowsBefore(_, _)
RowsBefore(frames, i) == IF i <= 1 THEN 0 ELSE RowsBefore(frames, i - 1) + Len(Rows(frames[i - 1]))

\* C7: the reduction emits one point per detection box, in frame order and, within a
\* frame, in detector order, each the centroid of its box (in half pixels:
\* x1 + x2, y1 + y2); a frame without detections emits none.
C7_ReductionTotalOrdered == pc = "render" => /\ Len(trajectory_points) = RowsBefore(results, Len(results) + 1)
                                             /\ pt_count = Len(trajectory_points)
                                             /\ \A i \in 1..Len(results) : \A j \in 1..Len(Rows(results[i])) : RowsBefore(results, i) + j <= Len(trajectory_points) /\ trajectory_points[RowsBefore(results, i) + j] = <<Rows(results[i])[j][1] + Rows(results[i])[j][3], Rows(results[i])[j][2] + Rows(results[i])[j][4]>>
                                             /\ (results \in {<<>>, <<FrameOf(<<>>)>>, <<FrameNoBoxes>>, <<FrameNoXyxy>>} => trajectory_points = <<>>)

C7_Witness == pc = "render" /\ results = ScenarioResults /\ trajectory_points = <<<<10, 10>>, <<10, 10>>, <<30, 30>>>> /\ pt_count = 3

\* C8: the row load_history returns for a recorded run carries the run's exact
\* point count, and get_cloud_results gives no plot for a run with fewer than 2.
C8_RoundTripAndAbsentPlot == (pc = "done" /\ history_outcome = "added") => /\ \E i \in 1..Len(load_history(history, TRUE, FALSE)) : load_history(history, TRUE, FALSE)[i].folder_name = folder_name /\ load_history(history, TRUE, FALSE)[i].points = Len(trajectory_points)
                                                                           /\ (pt_count < 2 => get_cloud_results(blobs, folder_name, TRUE, "none").html_content = None)

\* the sanitisation the data model states: characters outside [A-Za-z0-9 _-] are
\* dropped and a space becomes "_"
RECURSIVE StatedSanitize(_)
StatedSanitize(s) == IF s = <<>> THEN <<>> ELSE (IF Head(s) \in AsciiLetters \cup AsciiDigits \cup {"_", "-"} THEN <<Head(s)>> ELSE IF Head(s) = " " THEN <<"_">> ELSE <<>>) \o StatedSanitize(Tail(s))

\* C9: the name part of the run id is the display name without the characters
\* outside [A-Za-z0-9 _-] and with "_" for each space ("My Flight #1!" gives
\* "My_Flight_1"), and holds no character outside [A-Za-z0-9_-].
C9_SanitizedName == pc # "sanitize" => /\ san_once = StatedSanitize(analysis_name)
                                       /\ (analysis_name = MyFlight => san_once = <<"M", "y", "_", "F", "l", "i", "g", "h", "t", "_", "1">>)
                                       /\ \A i \in 1..Len(san_once) : san_once[i] \in AsciiLetters \cup AsciiDigits \cup {"_", "-"}

\* C10: sanitising a sanitised name changes nothing.
C10_SanitizeIdempotent == pc = "resanitized" => san_twice = san_once /\ name_part(name_part(analysis_name)) = name_part(analysis_name)

C10_Witness == pc = "resanitized" /\ analysis_name = <<" ", "#", "a">> /\ san_once = <<"a">> /\ san_twice = <<"a">>

\* C11: run ids are unique: a run never gets the folder_name of an earlier run, so
\* it never writes into a run directory, or over blobs, that exist already.
C11_FreshRunId == [][(pc = "idle" /\ pc' = "detect") => (\A f \in {VideoFile, PlotFile} : <<folder_name', f>> \notin local /\ <<folder_name', f>> \notin blobs)]_vars

\* C12: the collection holds at most one record per folder_name (a second write
\* with the same folder_name replaces the first).
C12_LastWriteWins == \A i \in 1..Len(history) : \A j \in 1..Len(history) : history[i].folder_name = history[j].folder_name => i = j

\* C13: a run whose record write failed is not reported as complete.
C13_FailedRecordNotSuccess == (pc = "done" /\ history_outcome \in {"no_db", "raised"}) => \A i \in 1..Len(msg) : msg[i] # "success_complete"

ValidationWarnings == {<<"warn_no_file">>, <<"warn_no_name">>}

\* C16: a rejected submission (no video, or an empty name) changes nothing but the
\* warning shown: no file, blob, record or session result, and no run starts; and
\* no run is ever in the machine with an empty display name.
C16_RejectedChangesNothing == [][/\ ((msg' \in ValidationWarnings /\ msg' # msg) => (pc = "idle" /\ pc' = "idle" /\ stores' = stores /\ current_analysis' = current_analysis /\ locals' = locals))
                                 /\ (pc' \notin {"idle", "sanitize", "sanitized", "resanitized"} => analysis_name' # <<>>)]_vars

C16_Witness == pc = "idle" /\ msg = <<"warn_no_name">> /\ current_analysis # None /\ local # {} /\ history # <<>>

\* C17: the collection only grows, by one record per recorded run: a step that
\* changes it appends exactly one record (that of the run, in its record stage) and
\* leaves the earlier records as they were; an aborted or failed run changes nothing.
C17_AppendOnly == [][/\ (history' # history => (pc = "record" /\ history_outcome' = "added" /\ Len(history') = Len(history) + 1 /\ SubSeq(history', 1, Len(history)) = history /\ history'[Len(history')].folder_name = folder_name /\ history'[Len(history')].points = pt_count))
                     /\ ((pc = "record" /\ history_outcome' = "added") => Len(history') = Len(history) + 1)
                     /\ (pc' = "aborted" => history' = history)]_vars

C17_Witness == pc = "done" /\ history_outcome = "added" /\ Len(history) = 2 /\ history[1].folder_name = history[2].folder_name /\ history[1].points # history[2].points

\* C18: a run with at least 2 points is not aborted when writing the plot fails.
C18_RenderFailureContinues == ~(pc = "aborted" /\ drawable(pt_count))

\* C20: a storage write that raised was attempted a second time before the run
\* gave up on it.
C20_FailedWriteRetried == pc = "done" => /\ (upload_outcome \in {"video_raised", "plot_raised"} => upload_attempts(upload_outcome) = 2)
                                         /\ (history_outcome = "raised" => insert_attempts(history_outcome) = 2)

\* the same character but for its case
SameLetter(c, d) == c = d \/ {c, d} \in {{"a", "A"}, {"b", "B"}, {"f", "F"}, {"m", "M"}}

\* query occurs in name at some offset, case ignored
OccursIn(query, name) == \E k \in 0..Len(name) : k + Len(query) <= Len(name) /\ \A i \in 1..Len(query) : SameLetter(name[k + i], query[i])

Matching(items, query) == SelectSeq(items, LAMBDA it : OccursIn(query, it.analysis_name))

\* C14: the search shows exactly the items whose analysis_name contains the query,
\* case ignored, in the order of the list; all items, unchanged, for an empty
\* query; none when nothing matches.
C14_SearchIsFilter == view.items # <<>> => /\ view.filtered_items = Matching(view.items, view.search_q)
                                           /\ (view.search_q = <<>> => view.filtered_items = view.items)
                                           /\ ((\A i \in 1..Len(view.items) : ~OccursIn(view.search_q, view.items[i].analysis_name)) => view.filtered_items = <<>>)

C14_Witness == view.search_q = <<"B">> /\ Len(view.items) = 2 /\ view.items[1].analysis_name = <<"a">> /\ view.items[2].analysis_name = <<"a", " ", "b">> /\ view.filtered_items = <<view.items[2]>>

NamedDocs == SelectSeq(history, LAMBDA d : d.analysis_name # <<>>)

\* the second a row's created_at text stands for
SecondOf(row) == CHOOSE c \in 0..(MaxClock + 1) : ToString(c) = row.created_at

IsRowOf(row, d) == row.folder_name = d.folder_name /\ row.analysis_name = d.analysis_name /\ SecondOf(row) = d.created_at /\ row.points = d.points

\* C15: the list load_history gives for a collection of at most HistoryLimit
\* documents has no row with an empty analysis_name, has one row for every other
\* document, and is in descending order of created_at.
C15_ListedNamedDescending == (view.items # <<>> /\ Len(history) <= HistoryLimit) =>
                                /\ \A i \in 1..Len(view.items) : view.items[i].analysis_name # <<>>
                                /\ Len(view.items) = Len(NamedDocs)
                                /\ \A i \in 1..Len(NamedDocs) : Cardinality({k \in 1..Len(view.items) : IsRowOf(view.items[k], NamedDocs[i])}) = Cardinality({k \in 1..Len(NamedDocs) : NamedDocs[k] = NamedDocs[i]})
                                /\ \A i \in 1..Len(view.items) : \A j \in i..Len(view.items) : SecondOf(view.items[i]) >= SecondOf(view.items[j])

C15_Witness == Len(history) = 3 /\ history[1].analysis_name = <<"a">> /\ history[1].created_at = 0 /\ history[2].analysis_name = <<>> /\ history[2].created_at = 1 /\ history[3].analysis_name = <<"A", "b">> /\ history[3].created_at = 1 /\ Len(view.items) = 2 /\ IsRowOf(view.items[1], history[3]) /\ IsRowOf(view.items[2], history[1])

\* the file upload_to_firebase reads for the video slot (165)
video_path == VideoFile

\* C19: when the detector saved an annotated video, the video stored for the run is
\* that annotated video: the file the upload reads is the file the detector wrote.
C19_DerivedVideoPersisted == (pc = "done" /\ upload_outcome = "returned" /\ save_path # None /\ <<folder_name, VideoFile>> \in blobs) => save_path = Some(video_path)

HistoryLoadFailed(m) == \E i \in 1..Len(m) : m[i] = "err_history_load"

\* C21: a run of the history page never changes the stores, and when the record
\* store is unavailable or the query raised, the page is what it is for an empty
\* collection: no items, nothing selected, "No history found" shown.
C21_FaultIsEmptyList == [][(page = "History" /\ page' = "History" /\ pc = "idle" /\ clock' = clock) =>
                              /\ stores' = stores
                              /\ ((~firebase_ok \/ HistoryLoadFailed(msg')) => (view' = NoView /\ msg'[Len(msg')] = "info_no_history"))]_vars

C21_Witness == firebase_ok /\ page = "History" /\ history # <<>> /\ history[1].analysis_name # <<>> /\ view = NoView /\ msg = <<"err_history_load", "info_no_history">>

====
